---------------------------- MODULE Spec2Model ----------------------------
(***************************************************************************)
(* Book catalogue service: the FastAPI handlers of api_fast.py and the     *)
(* Database class of database.py, both working on the SQLite table livros  *)
(* of the file biblioteca.db.  Every SQL statement (with its commit) is    *)
(* one atomic step; a handler that runs several statements is several      *)
(* steps, so that requests served by different worker threads interleave   *)
(* between statements.                                                     *)
(***************************************************************************)
EXTENDS Integers, Sequences, FiniteSets, TLC

\* The number of rows criar_livro and Database.create_livro insert in the
\* model (their INSERT is disabled beyond it); the rows popular_banco
\* inserts do not count.
MaxNovos == 2

\* Worker threads serving requests at the same time.
Procs == {"t1", "t2"}

\* The worker thread that serves every request when requests do not overlap.
Main == "t1"

\* Application processes starting at the same time: each runs the startup
\* hook popular_banco in its main thread.
Inicios == {"w1", "w2"}

\* The application process that starts when operations do not overlap.
Inicio == "w1"

\* Python's None / SQL NULL for an optional value; Some(v) is a present value.
None == << >>
Some(v) == << v >>
Opt(S) == {None} \cup {Some(v) : v \in S}

\* The values a column of livros takes in the model.
Titulos == {"A", "B"}
Autores == {"X", "Y"}
Anos == {1949}

\* The columns of livros a caller may set: the fields of LivroUpdate, the
\* allow-list of Database.update_livro.
Permitidos == {"titulo", "autor", "ano_publicacao", "disponivel"}

\* LivroCreate (LivroBase): ano_publicacao is Optional, disponivel a bool.
LivroCreate == [titulo : Titulos, autor : Autores,
                ano_publicacao : Opt(Anos), disponivel : BOOLEAN]

\* LivroUpdate: every field Optional, None when the caller left it out.
LivroUpdate == [titulo : Opt(Titulos), autor : Opt(Autores),
                ano_publicacao : Opt(Anos), disponivel : Opt(BOOLEAN)]

\* The bodies POST /livros is sent.
Creates ==
    LivroCreate \cap
    {[titulo |-> "A", autor |-> "X", ano_publicacao |-> None, disponivel |-> TRUE],
     [titulo |-> "B", autor |-> "Y", ano_publicacao |-> Some(1949), disponivel |-> FALSE]}

\* The bodies PUT /livros/{id} is sent: no field, one field, several, all.
Updates ==
    LivroUpdate \cap
    {[titulo |-> None, autor |-> None, ano_publicacao |-> None, disponivel |-> None],
     [titulo |-> Some("B"), autor |-> None, ano_publicacao |-> None, disponivel |-> None],
     [titulo |-> None, autor |-> Some("Y"), ano_publicacao |-> Some(1949),
      disponivel |-> None],
     [titulo |-> None, autor |-> None, ano_publicacao |-> None, disponivel |-> Some(FALSE)],
     [titulo |-> Some("A"), autor |-> Some("Y"), ano_publicacao |-> Some(1949),
      disponivel |-> Some(TRUE)]}

\* The arguments Database.create_livro is called with.
DbCreates ==
    {[titulo |-> "A", autor |-> "Y", ano_publicacao |-> 1949, disponivel |-> TRUE],
     [titulo |-> "B", autor |-> "Y", ano_publicacao |-> 1949, disponivel |-> FALSE]}

\* **kwargs of Database.update_livro: None marks a key that is not passed;
\* editora is a key the table has no column for.
Kwargs == [titulo : Opt(Titulos), autor : Opt(Autores),
           ano_publicacao : Opt(Anos), disponivel : Opt(BOOLEAN),
           editora : Opt({"E"})]

\* The keyword arguments Database.update_livro is called with.
DbKwargs ==
    Kwargs \cap
    {[titulo |-> None, autor |-> None, ano_publicacao |-> None, disponivel |-> None,
      editora |-> None],
     [titulo |-> None, autor |-> None, ano_publicacao |-> None, disponivel |-> None,
      editora |-> Some("E")],
     [titulo |-> Some("B"), autor |-> None, ano_publicacao |-> None, disponivel |-> None,
      editora |-> Some("E")],
     [titulo |-> None, autor |-> Some("Y"), ano_publicacao |-> Some(1949),
      disponivel |-> None, editora |-> None],
     [titulo |-> Some("A"), autor |-> None, ano_publicacao |-> None,
      disponivel |-> Some(FALSE), editora |-> None],
     [titulo |-> None, autor |-> None, ano_publicacao |-> None,
      disponivel |-> Some(TRUE), editora |-> Some("E")]}

\* exemplos of popular_banco: the rows it inserts into an empty table.
exemplos ==
    << [titulo |-> "Dom Casmurro", autor |-> "Machado de Assis",
        ano_publicacao |-> Some(1899), disponivel |-> 1],
       [titulo |-> "1984", autor |-> "George Orwell",
        ano_publicacao |-> Some(1949), disponivel |-> 1],
       [titulo |-> "A Culpa é das Estrelas", autor |-> "John Green",
        ano_publicacao |-> Some(2012), disponivel |-> 0],
       [titulo |-> "Harry Potter e a Pedra Filosofal", autor |-> "J.K. Rowling",
        ano_publicacao |-> Some(1997), disponivel |-> 1],
       [titulo |-> "O Pequeno Príncipe", autor |-> "Antoine de Saint-Exupéry",
        ano_publicacao |-> Some(1943), disponivel |-> 1],
       [titulo |-> "Orgulho e Preconceito", autor |-> "Jane Austen",
        ano_publicacao |-> Some(1813), disponivel |-> 1],
       [titulo |-> "Crime e Castigo", autor |-> "Fiódor Dostoiévski",
        ano_publicacao |-> Some(1866), disponivel |-> 0],
       [titulo |-> "Cem Anos de Solidão", autor |-> "Gabriel García Márquez",
        ano_publicacao |-> Some(1967), disponivel |-> 1] >>

\* The ids requests and Database calls are made with: the first id of a
\* fresh table (the first example once popular_banco has run on it) and
\* the first id handed out after the examples.
Ids == {1, Len(exemplos) + 1}

Max(S) == CHOOSE x \in S : \A y \in S : y <= x

(***************************************************************************)
(* SQLite: the table livros as a function from rowid to row, and           *)
(* sqlite_sequence.seq of the AUTOINCREMENT column.                        *)
(***************************************************************************)

\* id INTEGER PRIMARY KEY AUTOINCREMENT: one more than the largest rowid
\* ever used, which sqlite_sequence remembers across deletions.
\* (Faulty variant: a plain INTEGER PRIMARY KEY, which reuses the largest
\* rowid once its row is deleted.)
RowidReusingDeleted(t, s) == Max(DOMAIN t \cup {0}) + 1
NextRowid(t, s) == Max(DOMAIN t \cup {s}) + 1

\* SELECT * FROM livros WHERE id = ? ; fetchone(): the row, or None.
FetchOne(t, id) == IF id \in DOMAIN t THEN Some(t[id]) ELSE None

\* 1 if livro.disponivel else 0
\* (Faulty variant: the flag is dropped and the column default 1 is stored.)
BoolToIntAlwaysOne(b) == 1
BoolToInt(b) == IF b THEN 1 ELSE 0

\* bool(row["disponivel"])
IntToBool(i) == i # 0

\* INSERT INTO livros (titulo, autor, ano_publicacao, disponivel) VALUES (?,?,?,?)
InsertRow(t, s, titulo, autor, ano, disp) ==
    LET id == NextRowid(t, s)
    IN  [i \in DOMAIN t \cup {id} |->
            IF i = id
            THEN [titulo |-> titulo, autor |-> autor,
                  ano_publicacao |-> ano, disponivel |-> disp]
            ELSE t[i]]

\* The "col = ?" assignments of an UPDATE: a function from the columns set
\* to their new values.
ApplySets(row, sets) ==
    [c \in DOMAIN row |-> IF c \in DOMAIN sets THEN sets[c] ELSE row[c]]

\* UPDATE livros SET ... WHERE id = ?
UpdateRow(t, id, sets) ==
    [i \in DOMAIN t |-> IF i = id THEN ApplySets(t[i], sets) ELSE t[i]]

\* DELETE FROM livros WHERE id = ?
\* (Faulty variant: the DELETE is never committed.)
DeleteRowKeeping(t, id) == t
DeleteRow(t, id) == [i \in DOMAIN t \ {id} |-> t[i]]

\* conn.executemany(INSERT ..., rows): one INSERT per row, in order.
RECURSIVE InsertMany(_, _, _)
InsertMany(t, s, rows) ==
    IF rows = << >> THEN t
    ELSE InsertMany(InsertRow(t, s, rows[1].titulo, rows[1].autor,
                              rows[1].ano_publicacao, rows[1].disponivel),
                    NextRowid(t, s), Tail(rows))

\* The table livros exists with the columns of whichever CREATE TABLE IF NOT
\* EXISTS ran first on the file: in criar_tabela's ano_publicacao may be
\* NULL, in Database.init_db's it is NOT NULL.  An INSERT of a NULL there
\* raises sqlite3.IntegrityError and inserts nothing.
Esquemas == {"api_fast", "database"}
NotNullFailed(e, ano) == e = "database" /\ ano = None

\* cursor.rowcount of an UPDATE or DELETE ... WHERE id = ?
RowCount(t, id) == IF id \in DOMAIN t THEN 1 ELSE 0


(***************************************************************************)
(* State.                                                                  *)
(***************************************************************************)
VARIABLES
    livros,      \* the table: rowid -> row
    seq,         \* sqlite_sequence.seq for livros (0 while it has no entry)
    req,         \* per worker thread: the handler it is in and its locals
    ev,          \* what the last step did: the statement run and the answer given
    atribuidos,  \* history: the ids INSERT has assigned, in order
    excluidos,   \* history: the ids a DELETE has removed
    criados,     \* history: id -> record create_book returned, while no write touched the id
    esquema,     \* which module's CREATE TABLE made the table
    semeados     \* history: the ids popular_banco has inserted

vars == << livros, seq, req, ev, atribuidos, excluidos, criados, esquema, semeados >>

\* A worker thread between requests, or an application process that is not
\* starting; the locals of a handler or of the startup hook otherwise.
Idle == [pc |-> "idle", id |-> 0, livro |-> None, livro_update |-> None,
         rowcount |-> 0, conn |-> FALSE]

\* The step of handler or method op at statement step: the id it was called
\* with, the HTTP status answered (0: no answer yet, 500: an exception
\* nothing catches), the body or return value, the rowcount of its write,
\* whether its connection is still open after the step, and its argument.
Event(op, step, id, status, body, rowcount, conn, arg) ==
    [op |-> op, step |-> step, id |-> id, status |-> status,
     body |-> body, rowcount |-> rowcount, conn |-> conn, arg |-> arg]

\* criar_tabela() at import of api_fast (CREATE TABLE IF NOT EXISTS) on a
\* biblioteca.db that holds no row: the table exists and is empty, made by
\* criar_tabela, or by Database.init_db if a Database was constructed on
\* the file before.  The startup hook popular_banco has not run yet.  The
\* connection of criar_tabela is not closed when it returns: it is open
\* until the garbage collector finalises it.
Init ==
    /\ livros = << >>
    /\ seq = 0
    /\ req = [p \in Procs \cup Inicios |-> Idle]
    /\ \E open \in BOOLEAN :
          ev = Event("criar_tabela", "create", 0, 0, << >>, 0, open, None)
    /\ atribuidos = << >>
    /\ excluidos = {}
    /\ criados = << >>
    /\ esquema \in Esquemas
    /\ semeados = {}

\* The number of rows criar_livro and Database.create_livro have inserted.
Novos == Len(atribuidos) - Cardinality(semeados)

\* Drop id from a history function; record r for id in it.
Without(f, id) == [i \in DOMAIN f \ {id} |-> f[i]]
With(f, id, r) == [i \in DOMAIN f \cup {id} |-> IF i = id THEN r ELSE f[i]]

\* livro_from_row(row): the response dict of a row.
livro_from_row(id, row) ==
    [id |-> id, titulo |-> row.titulo, autor |-> row.autor,
     ano_publicacao |-> row.ano_publicacao,
     disponivel |-> IntToBool(row.disponivel)]

\* return livro_from_row(row) after a re-read: the answer ok with the
\* record, or TypeError (row is None), which nothing catches.
Responder(ok, id, row) ==
    IF row = None THEN [status |-> 500, body |-> << >>]
    ELSE [status |-> ok, body |-> << livro_from_row(id, row[1]) >>]

\* The k-th smallest rowid, for 1 <= k <= number of rows.
RECURSIVE NthRowid(_, _)
NthRowid(S, k) ==
    LET m == CHOOSE x \in S : \A y \in S : x <= y
    IN  IF k = 1 THEN m ELSE NthRowid(S \ {m}, k - 1)

(***************************************************************************)
(* api_fast.py handlers.                                                   *)
(***************************************************************************)

\* GET /livros: SELECT * FROM livros ORDER BY id
listar_livros(p) ==
    /\ req[p].pc = "idle"
    /\ ev' = Event("listar_livros", "select", 0, 200,
                   [k \in 1..Cardinality(DOMAIN livros) |->
                       LET id == NthRowid(DOMAIN livros, k)
                       IN  livro_from_row(id, livros[id])],
                   0, FALSE, None)
    /\ UNCHANGED << livros, seq, req, atribuidos, excluidos, criados, esquema, semeados >>

\* What obter_livro answers for the row it fetched: 404 for None.
ObterResponder(id, row) ==
    IF row = None THEN [status |-> 404, body |-> << >>]
    ELSE [status |-> 200, body |-> << livro_from_row(id, row[1]) >>]

\* GET /livros/{id}
obter_livro(p, id) ==
    /\ req[p].pc = "idle"
    /\ LET r == ObterResponder(id, FetchOne(livros, id))
       IN  ev' = Event("obter_livro", "select", id, r.status, r.body, 0, FALSE, None)
    /\ UNCHANGED << livros, seq, req, atribuidos, excluidos, criados, esquema, semeados >>

\* POST /livros, first statement: INSERT, commit, cursor.lastrowid.  The
\* IntegrityError of a NULL ano_publicacao in Database.init_db's table is
\* caught by nothing: the connection is closed and the answer is 500.
criar_livro_insert(p, livro) ==
    /\ req[p].pc = "idle"
    /\ Novos < MaxNovos
    /\ IF NotNullFailed(esquema, livro.ano_publicacao)
       THEN /\ ev' = Event("criar_livro", "insert", 0, 500, << >>, 0, FALSE,
                           Some(livro))
            /\ UNCHANGED << livros, seq, req, atribuidos, criados >>
       ELSE LET id == NextRowid(livros, seq)
            IN  /\ livros' = InsertRow(livros, seq, livro.titulo, livro.autor,
                                       livro.ano_publicacao,
                                       BoolToInt(livro.disponivel))
                /\ seq' = id
                /\ req' = [req EXCEPT ![p] = [Idle EXCEPT !.pc = "criar_select",
                                                          !.id = id,
                                                          !.livro = Some(livro),
                                                          !.conn = TRUE]]
                /\ ev' = Event("criar_livro", "insert", id, 0, << >>, 1, TRUE,
                               Some(livro))
                /\ atribuidos' = Append(atribuidos, id)
                /\ criados' = Without(criados, id)
    /\ UNCHANGED << excluidos, esquema, semeados >>

\* POST /livros, second statement: SELECT the new row and answer 201.
criar_livro_select(p) ==
    /\ req[p].pc = "criar_select"
    /\ LET id == req[p].id
           r  == Responder(201, id, FetchOne(livros, id))
       IN  /\ ev' = Event("criar_livro", "select", id, r.status, r.body, 0, FALSE,
                          req[p].livro)
           /\ criados' = IF r.status = 201 THEN With(criados, id, r.body[1])
                         ELSE criados
    /\ req' = [req EXCEPT ![p] = Idle]
    /\ UNCHANGED << livros, seq, atribuidos, excluidos, esquema, semeados >>

\* The fields of a LivroUpdate that are not None.
Supplied(u) == {c \in Permitidos : u[c] # None}

\* campos / valores of atualizar_livro: the columns whose field is not None,
\* with the values bound to them.
\* (Faulty variant: a disponivel left out is written as its default, True.)
CamposDefaultingDisponivel(u) ==
    [c \in {"disponivel"} \cup Supplied(u) |->
        IF c = "disponivel"
        THEN (IF u[c] = None THEN 1 ELSE BoolToInt(u[c][1]))
        ELSE IF c = "ano_publicacao" THEN u[c] ELSE u[c][1]]
Campos(u) ==
    [c \in Supplied(u) |->
        IF c = "disponivel" THEN BoolToInt(u[c][1])
        ELSE IF c = "ano_publicacao" THEN u[c]
        ELSE u[c][1]]

\* What atualizar_livro answers before it writes: 404 when the SELECT finds
\* no row, else 400 when campos is empty, else nothing yet (0).
\* (Faulty variant: campos is looked at before the row.)
AtualizarCheckFieldsFirst(row, campos) ==
    IF DOMAIN campos = {} THEN 400 ELSE IF row = None THEN 404 ELSE 0
AtualizarCheck(row, campos) ==
    IF row = None THEN 404 ELSE IF DOMAIN campos = {} THEN 400 ELSE 0

\* PUT /livros/{id}, first connection: the existence SELECT, then campos.
atualizar_livro_check(p, id, livro_update) ==
    /\ req[p].pc = "idle"
    /\ LET st == AtualizarCheck(FetchOne(livros, id), Campos(livro_update))
       IN  /\ ev' = Event("atualizar_livro", "check", id, st, << >>, 0, FALSE,
                          Some(livro_update))
           /\ req' = IF st = 0
                     THEN [req EXCEPT ![p] = [Idle EXCEPT !.pc = "atualizar_update",
                                                !.id = id,
                                                !.livro_update = Some(livro_update)]]
                     ELSE req
    /\ UNCHANGED << livros, seq, atribuidos, excluidos, criados, esquema, semeados >>

\* PUT /livros/{id}, second connection: UPDATE ... WHERE id = ?, commit.
atualizar_livro_update(p) ==
    /\ req[p].pc = "atualizar_update"
    /\ LET id == req[p].id
           n  == RowCount(livros, id)
       IN  /\ livros' = UpdateRow(livros, id, Campos(req[p].livro_update[1]))
           /\ req' = [req EXCEPT ![p] = [Idle EXCEPT !.pc = "atualizar_select",
                                                     !.id = id, !.rowcount = n,
                                                     !.conn = TRUE]]
           /\ ev' = Event("atualizar_livro", "update", id, 0, << >>, n, TRUE,
                          req[p].livro_update)
           /\ criados' = Without(criados, id)
    /\ UNCHANGED << seq, atribuidos, excluidos, esquema, semeados >>

\* PUT /livros/{id}, same connection: SELECT the row again and answer 200.
atualizar_livro_select(p) ==
    /\ req[p].pc = "atualizar_select"
    /\ LET id == req[p].id
           r  == Responder(200, id, FetchOne(livros, id))
       IN  ev' = Event("atualizar_livro", "select", id, r.status, r.body,
                       req[p].rowcount, FALSE, None)
    /\ req' = [req EXCEPT ![p] = Idle]
    /\ UNCHANGED << livros, seq, atribuidos, excluidos, criados, esquema, semeados >>

\* What excluir_livro answers after its existence SELECT: 404 or nothing yet.
\* (Faulty variant: the existence check is missing.)
ExcluirCheckNever404(row) == 0
ExcluirCheck(row) == IF row = None THEN 404 ELSE 0

\* DELETE /livros/{id}: SELECT id FROM livros WHERE id = ?
\* (Faulty variant: the DELETE runs ahead of the existence SELECT, which
\* then finds no row and answers 404 for a row that was just removed.)
excluir_livro_delete_before_check(p, id) ==
    /\ req[p].pc = "idle"
    /\ livros' = DeleteRow(livros, id)
    /\ LET st == ExcluirCheck(FetchOne(livros', id))
       IN  /\ ev' = Event("excluir_livro", "check", id, st, << >>, 0, st = 0, None)
           /\ req' = IF st = 0
                     THEN [req EXCEPT ![p] = [Idle EXCEPT !.pc = "excluir_delete",
                                                          !.id = id, !.conn = TRUE]]
                     ELSE req
    /\ excluidos' = excluidos \cup (DOMAIN livros \cap {id})
    /\ criados' = Without(criados, id)
    /\ UNCHANGED << seq, atribuidos, esquema, semeados >>
excluir_livro_check(p, id) ==
    /\ req[p].pc = "idle"
    /\ LET st == ExcluirCheck(FetchOne(livros, id))
       IN  /\ ev' = Event("excluir_livro", "check", id, st, << >>, 0, st = 0, None)
           /\ req' = IF st = 0
                     THEN [req EXCEPT ![p] = [Idle EXCEPT !.pc = "excluir_delete",
                                                          !.id = id, !.conn = TRUE]]
                     ELSE req
    /\ UNCHANGED << livros, seq, atribuidos, excluidos, criados, esquema, semeados >>

\* What excluir_livro answers after its DELETE: return None (204), whatever
\* the rowcount.
ExcluirStatus(rowcount) == 204

\* DELETE /livros/{id}, same connection: DELETE ... WHERE id = ?, commit.
excluir_livro_delete(p) ==
    /\ req[p].pc = "excluir_delete"
    /\ LET id == req[p].id
           n  == RowCount(livros, id)
       IN  /\ livros' = DeleteRow(livros, id)
           /\ ev' = Event("excluir_livro", "delete", id, ExcluirStatus(n), << >>, n,
                          FALSE, None)
           /\ excluidos' = IF n = 1 THEN excluidos \cup {id} ELSE excluidos
           /\ criados' = Without(criados, id)
    /\ req' = [req EXCEPT ![p] = Idle]
    /\ UNCHANGED << seq, atribuidos, esquema, semeados >>

\* The startup hook popular_banco, run each time an application process
\* starts, first statement: SELECT COUNT(*) FROM livros.  With a count
\* other than 0 the hook is over and its connection closed.
popular_banco_count(p) ==
    /\ req[p].pc = "idle"
    /\ IF DOMAIN livros = {}
       THEN /\ req' = [req EXCEPT ![p] = [Idle EXCEPT !.pc = "popular_insert",
                                                      !.conn = TRUE]]
            /\ ev' = Event("popular_banco", "count", 0, 0, << >>, 0, TRUE, None)
       ELSE /\ req' = req
            /\ ev' = Event("popular_banco", "count", 0, 0, << >>, 0, FALSE, None)
    /\ UNCHANGED << livros, seq, atribuidos, excluidos, criados, esquema, semeados >>

\* popular_banco after it counted 0: executemany(INSERT ..., exemplos) and
\* commit, whatever rows the table holds by now.
popular_banco_insert(p) ==
    /\ req[p].pc = "popular_insert"
    /\ livros' = InsertMany(livros, seq, exemplos)
    /\ seq' = Max(DOMAIN livros')
    /\ atribuidos' = atribuidos \o [k \in 1..Len(exemplos) |->
                                       NextRowid(livros, seq) + k - 1]
    /\ semeados' = semeados \cup (DOMAIN livros' \ DOMAIN livros)
    /\ ev' = Event("popular_banco", "insert", 0, 0, << >>, Len(exemplos), FALSE,
                   None)
    /\ req' = [req EXCEPT ![p] = Idle]
    /\ UNCHANGED << excluidos, criados, esquema >>

\* def criar_tabela(): CREATE TABLE IF NOT EXISTS inside
\* "with sqlite3.connect(DATABASE) as conn", which commits and does not
\* close: the connection stays open until the garbage collector finds it.
criar_tabela ==
    /\ \E open \in BOOLEAN :
          ev' = Event("criar_tabela", "create", 0, 0, << >>, 0, open, None)
    /\ UNCHANGED << livros, seq, req, atribuidos, excluidos, criados, esquema, semeados >>

(***************************************************************************)
(* database.py: class Database.  Every method runs one statement inside    *)
(* "with self.get_connection() as conn", which commits and does not close  *)
(* the connection: whether it is still open when the method has returned   *)
(* is up to the garbage collector.                                         *)
(***************************************************************************)

\* dict(row)
dict(id, row) ==
    [id |-> id, titulo |-> row.titulo, autor |-> row.autor,
     ano_publicacao |-> row.ano_publicacao, disponivel |-> row.disponivel]

\* A method that used a connection returns ret.
Returned(op, id, ret, rowcount, arg) ==
    \E open \in BOOLEAN : ev' = Event(op, "call", id, 0, ret, rowcount, open, arg)

\* Database.init_db: CREATE TABLE IF NOT EXISTS
init_db ==
    /\ Returned("init_db", 0, << >>, 0, None)
    /\ UNCHANGED << livros, seq, req, atribuidos, excluidos, criados, esquema, semeados >>

\* Database.create_livro: INSERT, commit, return cursor.lastrowid
create_livro(titulo, autor, ano_publicacao, disponivel) ==
    /\ Novos < MaxNovos
    /\ LET id == NextRowid(livros, seq)
       IN  /\ livros' = InsertRow(livros, seq, titulo, autor, Some(ano_publicacao),
                                  BoolToInt(disponivel))
           /\ seq' = id
           /\ Returned("create_livro", id, << id >>, 1,
                       Some([titulo |-> titulo, autor |-> autor,
                             ano_publicacao |-> Some(ano_publicacao),
                             disponivel |-> disponivel]))
           /\ atribuidos' = Append(atribuidos, id)
           /\ criados' = Without(criados, id)
    /\ UNCHANGED << req, excluidos, esquema, semeados >>

\* Database.get_all_livros: SELECT * FROM livros, rows as dicts
get_all_livros ==
    /\ Returned("get_all_livros", 0,
                [k \in 1..Cardinality(DOMAIN livros) |->
                    LET id == NthRowid(DOMAIN livros, k) IN dict(id, livros[id])],
                0, None)
    /\ UNCHANGED << livros, seq, req, atribuidos, excluidos, criados, esquema, semeados >>

\* Database.get_livro_by_id: dict(row) if row else None
get_livro_by_id(livro_id) ==
    /\ LET row == FetchOne(livros, livro_id)
       IN  Returned("get_livro_by_id", livro_id,
                    IF row = None THEN << >> ELSE << dict(livro_id, row[1]) >>, 0, None)
    /\ UNCHANGED << livros, seq, req, atribuidos, excluidos, criados, esquema, semeados >>

\* fields / values of update_livro: the keys of kwargs that are in the
\* allow-list, with their values as sqlite3 binds them.
Fields(kwargs) ==
    [c \in {k \in DOMAIN kwargs : kwargs[k] # None /\ k \in Permitidos} |->
        IF c = "disponivel" THEN BoolToInt(kwargs[c][1])
        ELSE IF c = "ano_publicacao" THEN kwargs[c]
        ELSE kwargs[c][1]]

\* return cursor.rowcount > 0
\* (Faulty variant: >= for >.)
RowcountNotNegative(rowcount) == rowcount >= 0
RowcountPositive(rowcount) == rowcount > 0

\* Database.update_livro(livro_id, **kwargs)
update_livro(livro_id, kwargs) ==
    IF \A k \in DOMAIN kwargs : kwargs[k] = None      \* if not kwargs
    THEN /\ ev' = Event("update_livro", "call", livro_id, 0, << FALSE >>, 0, FALSE,
                        Some(kwargs))
         /\ UNCHANGED << livros, seq, req, atribuidos, excluidos, criados, esquema, semeados >>
    ELSE IF DOMAIN Fields(kwargs) = {}                \* if not fields
    THEN /\ ev' = Event("update_livro", "call", livro_id, 0, << FALSE >>, 0, FALSE,
                        Some(kwargs))
         /\ UNCHANGED << livros, seq, req, atribuidos, excluidos, criados, esquema, semeados >>
    ELSE /\ livros' = UpdateRow(livros, livro_id, Fields(kwargs))
         /\ Returned("update_livro", livro_id,
                     << RowcountPositive(RowCount(livros, livro_id)) >>,
                     RowCount(livros, livro_id), Some(kwargs))
         /\ criados' = Without(criados, livro_id)
         /\ UNCHANGED << seq, req, atribuidos, excluidos, esquema, semeados >>

\* Database.delete_livro: DELETE, commit, return cursor.rowcount > 0
delete_livro(livro_id) ==
    /\ livros' = DeleteRow(livros, livro_id)
    /\ Returned("delete_livro", livro_id,
                << RowcountPositive(RowCount(livros, livro_id)) >>,
                RowCount(livros, livro_id), None)
    /\ excluidos' = IF livro_id \in DOMAIN livros THEN excluidos \cup {livro_id}
                    ELSE excluidos
    /\ criados' = Without(criados, livro_id)
    /\ UNCHANGED << seq, req, atribuidos, esquema, semeados >>

\* Database.livro_exists: SELECT 1 FROM livros WHERE id = ?
livro_exists(livro_id) ==
    /\ Returned("livro_exists", livro_id, << FetchOne(livros, livro_id) # None >>, 0, None)
    /\ UNCHANGED << livros, seq, req, atribuidos, excluidos, criados, esquema, semeados >>

(***************************************************************************)
(* Specifications.                                                         *)
(***************************************************************************)

\* A worker thread takes a request.
Start(p) ==
    \/ listar_livros(p)
    \/ \E id \in Ids : obter_livro(p, id)
    \/ \E livro \in Creates : criar_livro_insert(p, livro)
    \/ \E id \in Ids, u \in Updates : atualizar_livro_check(p, id, u)
    \/ \E id \in Ids : excluir_livro_check(p, id)

\* A worker thread runs the next statement of the handler it is in.
Continue(p) ==
    \/ criar_livro_select(p)
    \/ atualizar_livro_update(p)
    \/ atualizar_livro_select(p)
    \/ excluir_livro_delete(p)

\* No handler and no startup hook is running.
Quiet == \A q \in Procs \cup Inicios : req[q].pc = "idle"

\* Requests served by worker threads that run at the same time, while an
\* application process starts, or starts again.
Next ==
    \/ \E p \in Procs : Start(p) \/ Continue(p)
    \/ popular_banco_count(Inicio) \/ popular_banco_insert(Inicio)

Spec == Init /\ [][Next]_vars

\* Application processes that start, or start again, at the same time,
\* while a worker thread serves requests.
NextStart ==
    \/ \E w \in Inicios : popular_banco_count(w) \/ popular_banco_insert(w)
    \/ Start(Main) \/ Continue(Main)

StartSpec == Init /\ [][NextStart]_vars

\* One operation at a time, a request, a start of the application or a call
\* of criar_tabela or of a Database method: it starts only when no handler
\* and no startup hook is running, and runs to its end.

NextSeq ==
    \/ Quiet /\ Start(Main)
    \/ Continue(Main)
    \/ Quiet /\ popular_banco_count(Inicio)
    \/ popular_banco_insert(Inicio)
    \/ Quiet /\ criar_tabela
    \/ Quiet /\ init_db
    \/ Quiet /\ \E c \in DbCreates :
                    create_livro(c.titulo, c.autor, c.ano_publicacao, c.disponivel)
    \/ Quiet /\ get_all_livros
    \/ Quiet /\ \E id \in Ids : get_livro_by_id(id)
    \/ Quiet /\ \E id \in Ids, k \in DbKwargs : update_livro(id, k)
    \/ Quiet /\ \E id \in Ids : delete_livro(id)
    \/ Quiet /\ \E id \in Ids : livro_exists(id)

SeqSpec == Init /\ [][NextSeq]_vars

(***************************************************************************)
(* Properties.                                                             *)
(***************************************************************************)

\* The last step is statement step of handler op.
Did(op, step) == ev.op = op /\ ev.step = step

\* The last step is the existence check of update_book with no field supplied.
EmptyUpdateChecked ==
    /\ Did("atualizar_livro", "check")
    /\ \A c \in Permitidos : ev.arg[1][c] = None

\* The last step looked id up on behalf of get_book, update_book or delete_book.
LookedUp ==
    \/ Did("obter_livro", "select")
    \/ Did("atualizar_livro", "check")
    \/ Did("excluir_livro", "check")

\* C1 as stated: update_book with no field supplied answers BadRequest (400)
\* for every id, whether or not a row with that id exists.
C1_EmptyUpdateAlwaysBadRequest == EmptyUpdateChecked => ev.status = 400

\* C1 amended: update_book with no field supplied answers BadRequest (400)
\* when a row with the id exists and NotFound (404) when none does; it never
\* succeeds and never goes on to write.
C1_EmptyUpdateBadRequestIfExists ==
    EmptyUpdateChecked =>
        ev.status = (IF ev.id \in DOMAIN livros THEN 400 ELSE 404)

C1_Witness ==
    EmptyUpdateChecked /\ ev.id \in DOMAIN livros /\ ev.status = 400

\* C2: for an id with no row, get_book, update_book (whatever fields it is
\* given, none included) and delete_book answer NotFound (404): not 400, not
\* 500, and they do not go on.
C2_MissingIdNotFound ==
    (LookedUp /\ ev.id \notin DOMAIN livros) => ev.status = 404

C2_Witness ==
    EmptyUpdateChecked /\ ev.id \in excluidos /\ ev.status = 404

\* The value update_book is asked to give field c, as responses show it.
Asked(u, c) == IF c = "ano_publicacao" THEN u[c] ELSE u[c][1]

\* C3: the UPDATE of update_book on an existing id gives every supplied
\* field of that row the supplied value and leaves its other fields, its
\* id, every other row and the id sequence as they were; the record then
\* returned with 200 is the row as stored.
C3_Step ==
    /\ (ev'.op = "atualizar_livro" /\ ev'.step = "update" /\ ev'.id \in DOMAIN livros) =>
          LET id     == ev'.id
              u      == ev'.arg[1]
              antes  == livro_from_row(id, livros[id])
              depois == livro_from_row(id, livros'[id])
          IN  /\ \E c \in Permitidos : u[c] # None
              /\ DOMAIN livros' = DOMAIN livros
              /\ seq' = seq
              /\ \A i \in DOMAIN livros \ {id} : livros'[i] = livros[i]
              /\ depois.id = antes.id
              /\ \A c \in Permitidos :
                    IF u[c] # None
                    THEN depois[c] = Asked(u, c)
                    ELSE depois[c] = antes[c] /\ livros'[id][c] = livros[id][c]
    /\ (ev'.op = "atualizar_livro" /\ ev'.step = "select" /\ ev'.status = 200) =>
          /\ livros' = livros
          /\ ev'.id \in DOMAIN livros
          /\ ev'.body = << livro_from_row(ev'.id, livros[ev'.id]) >>

C3_UpdateFrame == [][C3_Step]_vars

C3_Witness ==
    /\ Did("atualizar_livro", "select")
    /\ ev.status = 200
    /\ Cardinality(DOMAIN livros) = 2
    /\ ev.body[1].titulo = "B"
    /\ ev.body[1].autor = "X"
    /\ ev.body[1].disponivel = TRUE

\* The record create_book is to return for input livro under id.
LivroOf(id, livro) ==
    [id |-> id, titulo |-> livro.titulo, autor |-> livro.autor,
     ano_publicacao |-> livro.ano_publicacao, disponivel |-> livro.disponivel]

\* C4: for every input whose publication year is an integer, and for every
\* input at all while the table is the one criar_tabela made, the INSERT of
\* create_book goes through; create_book then answers 201 with the input's
\* four attributes and the id its INSERT was assigned, and a get_book of
\* that id, as long as no update or delete has touched the id, answers 200
\* with that same record.
C4_CreateThenGet ==
    /\ (Did("criar_livro", "insert")
           /\ (ev.arg[1].ano_publicacao # None \/ esquema = "api_fast")) =>
          /\ ev.status = 0
          /\ ev.id = atribuidos[Len(atribuidos)]
          /\ ev.id \in DOMAIN livros
    /\ Did("criar_livro", "select") =>
          /\ ev.status = 201
          /\ ev.body = << LivroOf(ev.id, ev.arg[1]) >>
          /\ ev.id = atribuidos[Len(atribuidos)]
          /\ ev.id \in DOMAIN criados
    /\ (Did("obter_livro", "select") /\ ev.id \in DOMAIN criados) =>
          /\ ev.status = 200
          /\ ev.body = << criados[ev.id] >>

\* After the application started on a fresh file, a book was created as
\* the ninth row, and get_book returns it.
C4_Witness ==
    /\ Did("obter_livro", "select")
    /\ ev.id \in DOMAIN criados
    /\ ev.id = Len(exemplos) + 1
    /\ semeados # {}
    /\ ev.status = 200
    /\ ev.body[1].disponivel = FALSE

\* C5: delete_book of an existing id passes its check, answers 204 and
\* removes the row; a removed id never has a row again, and every later
\* get_book and delete_book of it answers NotFound (404), whatever was
\* created, updated or deleted meanwhile.
C5_DeleteIsPermanent ==
    /\ (Did("excluir_livro", "check") /\ ev.id \in DOMAIN livros) => ev.status = 0
    /\ Did("excluir_livro", "delete") =>
          /\ ev.status = 204
          /\ ev.rowcount = 1
          /\ ev.id \notin DOMAIN livros
          /\ ev.id \in excluidos
    /\ excluidos \cap DOMAIN livros = {}
    /\ ((Did("obter_livro", "select") \/ Did("excluir_livro", "check"))
           /\ ev.id \in excluidos) => ev.status = 404

C5_Witness ==
    /\ Did("excluir_livro", "check")
    /\ ev.id = 1
    /\ ev.id \in excluidos
    /\ ev.status = 404
    /\ 2 \in DOMAIN livros

\* C6: every id an INSERT assigns is greater than every id assigned before
\* it, so no id is assigned twice, also after rows were deleted.
C6_IdsStrictlyIncrease ==
    \A i, j \in 1..Len(atribuidos) : i < j => atribuidos[i] < atribuidos[j]

C6_Witness ==
    /\ Did("criar_livro", "insert")
    /\ atribuidos = << 1, 2 >>
    /\ excluidos = {1}
    /\ DOMAIN livros = {2}

\* The column value Database.update_livro is asked to store for key c.
Stored(k, c) ==
    IF c = "disponivel" THEN (IF k[c][1] THEN 1 ELSE 0)
    ELSE IF c = "ano_publicacao" THEN k[c] ELSE k[c][1]

\* C7: Database.update_livro ignores the keys outside the allow-list; with
\* no allowed key it writes nothing and returns False; otherwise it gives
\* the allowed keys' columns of row id the passed values, touches nothing
\* else, and returns True exactly when row id exists.
C7_Step ==
    ev'.op = "update_livro" =>
        LET id  == ev'.id
            k   == ev'.arg[1]
            rec == {c \in Permitidos : k[c] # None}
        IN  /\ DOMAIN livros' = DOMAIN livros
            /\ seq' = seq
            /\ IF rec = {}
               THEN livros' = livros /\ ev'.body = << FALSE >>
               ELSE /\ ev'.body = << id \in DOMAIN livros >>
                    /\ \A i \in DOMAIN livros : \A c \in Permitidos :
                          livros'[i][c] = IF i = id /\ c \in rec THEN Stored(k, c)
                                          ELSE livros[i][c]

C7_StoreUpdate == [][C7_Step]_vars

C7_Witness ==
    /\ ev.op = "update_livro"
    /\ ev.arg[1].editora # None
    /\ ev.arg[1].titulo # None
    /\ ev.body = << TRUE >>
    /\ Cardinality(DOMAIN livros) = 2

\* C8: an update_book whose UPDATE found no row, because a delete_book
\* removed it after the existence check, answers BadRequest (400) with no
\* record.
C8_RacedUpdateBadRequest ==
    (Did("atualizar_livro", "select") /\ ev.rowcount = 0) =>
        (ev.status = 400 /\ ev.body = << >>)

\* C9: a delete_book whose DELETE found no row, because another delete_book
\* of the same id ran between its existence check and its DELETE, answers
\* BadRequest (400).
C9_RacedDeleteBadRequest ==
    (Did("excluir_livro", "delete") /\ ev.rowcount = 0) => ev.status = 400

\* C10: between operations no storage connection is open: every operation
\* has closed the connection it opened by the time it ends.
C10_ConnectionsReleased ==
    Quiet => (~ev.conn /\ \A p \in Procs \cup Inicios : ~req[p].conn)

\* C11: a get_book, update_book or delete_book call that answers NotFound
\* (404) or BadRequest (400) leaves the table as it was before the call: no
\* row is added, removed or modified, and the next id to be assigned is the
\* same.
Failed(e) ==
    /\ e.op \in {"obter_livro", "atualizar_livro", "excluir_livro"}
    /\ e.status \in {400, 404}

C11_Step ==
    Failed(ev') =>
        /\ livros' = livros
        /\ seq' = seq
        /\ NextRowid(livros', seq') = NextRowid(livros, seq)

C11_FailedCallFrame == [][C11_Step]_vars

\* A delete of an id that was removed before answers 404 while the table
\* still holds a row and ids have been handed out.
C11_Witness ==
    /\ Did("excluir_livro", "check")
    /\ ev.status = 404
    /\ ev.id \in excluidos
    /\ DOMAIN livros # {}
    /\ seq > 0

=============================================================================
